---------------------------- MODULE Spec2Model ----------------------------
(***************************************************************************)
(* A model of the audio DSP engine of Language-Learning-Audio-Player:      *)
(*   src/RustWebAssembly/audio_processor/src/lib.rs  (the engine:          *)
(*       AudioProcessor with its streaming state, IIRFilter)               *)
(*   src/RustWebAssembly/lib.rs                      (the earlier draft:   *)
(*       AudioProcessor with three cascaded BiquadFilter, RMS waveform)    *)
(*                                                                         *)
(* Numbers.  An f32 is modelled as a fixed-point integer in units of       *)
(* 1/Scale, plus three non-finite values NaN, PInf, NInf.  Filter          *)
(* coefficients use the finer unit 1/CoefScale.  sin, cos, exp, log10 and  *)
(* powf are fixed-point approximations (piecewise-linear base-2 log and    *)
(* power, tabulated sin and cos); sqrt is the integer square root.         *)
(*                                                                         *)
(* Libraries.  realfft and pitch_detection are not code of the repository. *)
(* The forward transform is a fixed deterministic map RealFft from 1024    *)
(* samples to 513 bins; what the McLeod detector answers is an input of    *)
(* each call that runs it (any optional frequency).                        *)
(***************************************************************************)
EXTENDS Integers, Sequences, FiniteSets, TLC

VARIABLES
  sample_rate,            \* AudioProcessor.sample_rate
  envelope,               \* AudioProcessor.envelope
  pitch_history,          \* AudioProcessor.pitch_history
  spectral_flux_history,  \* AudioProcessor.spectral_flux_history
  rms_history,            \* AudioProcessor.rms_history
  prev_spectrum,          \* AudioProcessor.prev_spectrum : Option<Vec<f32>>
  biquad,                 \* draft processor: the three BiquadFilter states
  call,                   \* the last call: operation, arguments, outcome
  hist,                   \* history of the run: pushes, counters, previous states
  ncalls                  \* number of state-changing calls made so far

vars == <<sample_rate, envelope, pitch_history, spectral_flux_history,
          rms_history, prev_spectrum, biquad, call, hist, ncalls>>

---------------------------------------------------------------------------
(* Fixed-point numbers *)

Scale == 10 * 100
CoefScale == 2 ^ 14

PInf == 2 ^ 30
NInf == -(2 ^ 30)
NaN == 2 ^ 30 + 1

IsNaN(x) == x = NaN
IsFinite(x) == x # NaN /\ x # PInf /\ x # NInf

Abs(x) == IF x < 0 THEN -x ELSE x
Min(a, b) == IF a < b THEN a ELSE b
Max(a, b) == IF a > b THEN a ELSE b
Sign(x) == IF x > 0 THEN 1 ELSE IF x < 0 THEN -1 ELSE 0

\* f32 absolute value (NaN stays NaN, -inf becomes +inf)
FAbs(x) == IF IsNaN(x) THEN NaN ELSE IF x = NInf THEN PInf ELSE Abs(x)

\* n / d rounded to the nearest integer, d # 0
RoundDiv(n, d) == IF d > 0 THEN (2 * n + d) \div (2 * d) ELSE (-(2 * n) - d) \div (-(2 * d))

\* f32 product of two numbers in units of 1/Scale
FMul(a, b) ==
  IF IsNaN(a) \/ IsNaN(b) THEN NaN
  ELSE IF ~IsFinite(a) \/ ~IsFinite(b)
       THEN IF a = 0 \/ b = 0 THEN NaN
            ELSE IF Sign(a) * Sign(b) > 0 THEN PInf ELSE NInf
  ELSE RoundDiv(a * b, Scale)

\* f32 difference
FSub(a, b) ==
  IF IsNaN(a) \/ IsNaN(b) THEN NaN
  ELSE IF ~IsFinite(a) THEN (IF a = b THEN NaN ELSE a)
  ELSE IF ~IsFinite(b) THEN (IF b = PInf THEN NInf ELSE PInf)
  ELSE a - b

FNeg(a) == IF IsNaN(a) THEN NaN ELSE IF a = PInf THEN NInf ELSE IF a = NInf THEN PInf ELSE -a

\* f32 comparison a > b (false when either is NaN)
FGt(a, b) == ~IsNaN(a) /\ ~IsNaN(b) /\ a > b

\* f32 quotient of two numbers in units of 1/Scale
FDiv(a, b) ==
  IF IsNaN(a) \/ IsNaN(b) THEN NaN
  ELSE IF ~IsFinite(a) THEN (IF ~IsFinite(b) THEN NaN
                             ELSE IF (a = PInf) = (b >= 0) THEN PInf ELSE NInf)
  ELSE IF ~IsFinite(b) THEN 0
  ELSE IF b = 0 THEN (IF a = 0 THEN NaN ELSE IF a > 0 THEN PInf ELSE NInf)
  ELSE RoundDiv(a * Scale, b)

RECURSIVE IsqrtFrom(_, _, _)
IsqrtFrom(n, lo, hi) ==
  IF lo >= hi THEN lo
  ELSE LET m == (lo + hi + 1) \div 2
       IN IF m * m <= n THEN IsqrtFrom(n, m, hi) ELSE IsqrtFrom(n, lo, m - 1)

\* floor of the square root of n, n >= 0
Isqrt(n) == IsqrtFrom(n, 0, Min(n, 46340))

\* sqrt of a number in units of 1/Scale^2, in units of 1/Scale
Sqrt(x) == Isqrt(x)

RECURSIVE FloorLog2(_)
FloorLog2(v) == IF v < 2 THEN 0 ELSE 1 + FloorLog2(v \div 2)

\* log2 of the integer v >= 1, in units of 1/Scale (linear between powers of 2)
Log2Int(v) ==
  LET k == FloorLog2(v)
      p == 2 ^ k
  IN k * Scale + ((v - p) * Scale) \div p

\* 2^e for e in units of 1/Scale, in units of 1/Scale (linear between powers of 2)
Pow2(e) ==
  LET k == e \div Scale
      m == Scale + (e % Scale)
  IN IF k > 20 THEN PInf
     ELSE IF k < -30 THEN 0
     ELSE IF k >= 0 THEN m * (2 ^ k)
     ELSE m \div (2 ^ (-k))

\* x.log10() * 20.0 for x in units of 1/Scale: 20 log10 x = 6.0206 log2 x
Log10Times20(x) ==
  IF IsNaN(x) \/ x < 0 THEN NaN
  ELSE IF x = 0 THEN NInf
  ELSE IF x = PInf THEN PInf
  ELSE (6021 * (Log2Int(x) - Log2Int(Scale))) \div Scale

\* 10.0f32.powf(d / 20.0) for d in units of 1/Scale: 10^(d/20) = 2^(d/6.0206)
Pow10Div20(d) ==
  IF IsNaN(d) THEN NaN
  ELSE IF d = PInf THEN PInf
  ELSE IF d = NInf THEN 0
  ELSE Pow2((d * Scale) \div 6021)

\* (y).exp() for y in units of 1/Scale: e^y = 2^(1.4427 y)
Exp(y) ==
  IF IsNaN(y) THEN NaN
  ELSE IF y = PInf THEN PInf
  ELSE IF y = NInf THEN 0
  ELSE IF y > 20 * Scale THEN PInf
  ELSE IF y < -(20 * Scale) THEN 0
  ELSE Pow2((y * 1443) \div Scale)

\* sum of f[lo..hi], by halving (keeps the evaluation depth logarithmic)
RECURSIVE SumRange(_, _, _)
SumRange(f, lo, hi) ==
  IF lo > hi THEN 0
  ELSE IF lo = hi THEN f[lo]
  ELSE LET m == (lo + hi) \div 2
       IN SumRange(f, lo, m) + SumRange(f, m + 1, hi)

\* maximum of f[lo..hi] and 0, by halving
RECURSIVE MaxRange(_, _, _)
MaxRange(f, lo, hi) ==
  IF lo > hi THEN 0
  ELSE IF lo = hi THEN Max(0, f[lo])
  ELSE LET m == (lo + hi) \div 2
       IN Max(MaxRange(f, lo, m), MaxRange(f, m + 1, hi))

\* Option<T>
None == [some |-> FALSE, v |-> 0]
Some(x) == [some |-> TRUE, v |-> x]

\* the one element of a singleton set; The({e : x \in {v}}) is e with x
\* bound to the value of v (`let x = v;` of the code)
The(S) == CHOOSE x \in S : TRUE

\* table[key] where the table has the key, else value: the operators that
\* cost most are evaluated once, up front, for the long buffers the
\* specifications use, and looked up afterwards
Lookup(table, key, value) == IF key \in DOMAIN table THEN table[key] ELSE value

\* Loops over the samples of a buffer carry a state (a filter, an envelope)
\* from one sample to the next.  A loop over data[lo..hi] is evaluated by
\* halves, each half before it is used, which keeps the evaluation depth
\* logarithmic; a step and a run are both [st |-> the state after it,
\* out |-> what it wrote].  First(r) is the run of the one step r, and
\* Joined(l, r) the run l followed by the run r.
First(r) == [st |-> r.st, out |-> <<r.out>>]
Joined(l, r) == [st |-> r.st, out |-> l.out \o r.out]

---------------------------------------------------------------------------
(* Constants of the program (audio_processor/src/lib.rs) *)

DenoiseFftSize == 2048        \* fft_size of denoise_audio
SpectrumFftSize == 1024       \* fft_size of analyze_spectrum_internal
SpectrumMinLen == 512         \* shortest buffer analyze_spectrum_internal takes
PitchMinLen == 1024           \* shortest buffer detect_pitch takes
PitchCapacity == 10           \* length of pitch_history
FluxCapacity == 30            \* length of spectral_flux_history
RmsCapacity == 30             \* length of rms_history
DefaultSampleRate == 44100    \* sample_rate after new()

---------------------------------------------------------------------------
(* Inputs: bounds, buffers, settings *)

MaxCalls == 2          \* state-changing calls in one run of Spec
MaxSmallLen == 3       \* length of the short buffers
MaxPoints == 4         \* num_points of the waveform summarizers
StreamLen == 31        \* frames in one run of SpecStream
MaxPeriod == 2         \* period of the input streams of SpecStream

\* a square wave of `len` samples, amplitude amp, half period 4
Wave(len, amp) == [i \in 1..len |-> IF ((i - 1) \div 4) % 2 = 0 THEN amp ELSE -amp]

\* all sequences over S of length at most n
RECURSIVE SeqsUpTo(_, _)
SeqsUpTo(S, n) ==
  IF n = 0 THEN {<<>>}
  ELSE LET shorter == SeqsUpTo(S, n - 1)
       IN shorter \cup {Append(b, x) : b \in {c \in shorter : Len(c) = n - 1}, x \in S}

\* the short buffers: every buffer of at most MaxSmallLen samples over
\* three sample values (zero among them)
SmallBuffers == SeqsUpTo({-500, 0, 300}, MaxSmallLen)

\* the frames at the length thresholds of the analyses: one sample short
\* of the spectral analysis, just enough for it, one short of the pitch
\* detection, just enough for it (and a full analysis window), the same at
\* another amplitude
ShortFrame == Wave(SpectrumMinLen - 1, 400) \o <<>>
HalfFrame == Wave(SpectrumMinLen, 400) \o <<>>
AlmostFullFrame == Wave(PitchMinLen - 1, 400) \o <<>>
FullFrame == Wave(PitchMinLen, 400) \o <<>>
QuietFrame == Wave(PitchMinLen, 300) \o <<>>
Frames == {<<>>, ShortFrame, HalfFrame, AlmostFullFrame, FullFrame, QuietFrame}

\* the buffers at the length threshold of the denoiser: one sample short,
\* just enough, and long enough for one frame of the frame loop
DenoiseBuffers ==
  {Wave(DenoiseFftSize - 1, 400) \o <<>>, Wave(DenoiseFftSize, 400) \o <<>>,
   Wave(DenoiseFftSize + 1, 400) \o <<>>}

\* decoded (or undecodable) EqualizerSettings; gains in units of 1/Scale.
\* No f32 lies at distance exactly 0.01 from 1.0, so the grid leaves 990
\* and 1010 out.
Eq(bass, mid, treble) == [decodes |-> TRUE, bass |-> bass, mid |-> mid, treble |-> treble]
EqUndecodable == [decodes |-> FALSE, bass |-> 0, mid |-> 0, treble |-> 0]
EqFlat == Eq(Scale, Scale, Scale)
EqNearFlat == Eq(1009, 991, 1005)
EqBoost == Eq(1500, 1200, 800)
EqJustOff == Eq(Scale, Scale, 1011)

\* decoded (or undecodable) CompressorSettings, in units of 1/Scale:
\* threshold and makeup_gain in dB, attack and release in seconds
Comp(threshold, ratio, attack, release, makeup_gain) ==
  [decodes |-> TRUE, threshold |-> threshold, ratio |-> ratio, attack |-> attack,
   release |-> release, makeup_gain |-> makeup_gain]
CompUndecodable ==
  [decodes |-> FALSE, threshold |-> 0, ratio |-> 0, attack |-> 0, release |-> 0, makeup_gain |-> 0]

\* what the pitch detection library may answer: nothing, or a frequency
PitchOutcomes == {None, Some(440 * Scale)}

---------------------------------------------------------------------------
(* Sample rates and the trigonometric table *)

\* the sample rates the model sets (8000 puts the treble cutoff at 0.5)
SampleRates == {44100, 8000}

\* cos and sin of omega = 2 pi f / sr, in units of 1/CoefScale, for the
\* frequencies the two equalizers use
Trig ==
  [sr \in SampleRates |->
     IF sr = 44100
     THEN [f \in {200, 1000, 4000, 5000} |->
             CASE f = 200  -> [cos |-> 16377, sin |-> 467]
               [] f = 1000 -> [cos |-> 16218, sin |-> 2326]
               [] f = 4000 -> [cos |-> 13795, sin |-> 8840]
               [] f = 5000 -> [cos |-> 12400, sin |-> 10709]]
     ELSE [f \in {200, 1000, 4000, 5000} |->
             CASE f = 200  -> [cos |-> 16182, sin |-> 2563]
               [] f = 1000 -> [cos |-> 11585, sin |-> 11585]
               [] f = 4000 -> [cos |-> -16384, sin |-> 0]
               [] f = 5000 -> [cos |-> -11585, sin |-> -11585]]]

\* a / b for coefficients, in units of 1/CoefScale
CoefDiv(a, b) == (a * CoefScale) \div b

---------------------------------------------------------------------------
(* IIRFilter (audio_processor/src/lib.rs) *)

\* IIRFilter { a, b, x, y } with normalised coefficients and cleared history
IIRFilter(b0, b1, b2, a0, a1, a2) ==
  [b |-> <<CoefDiv(b0, a0), CoefDiv(b1, a0), CoefDiv(b2, a0)>>,
   a |-> <<CoefScale, CoefDiv(a1, a0), CoefDiv(a2, a0)>>,
   x |-> <<0, 0, 0>>,
   y |-> <<0, 0, 0>>]

\* alpha = omega.sin() / (2.0 * q), q in units of 1/Scale
Alpha(t, q) == (t.sin * Scale) \div (2 * q)

\* IIRFilter::low_pass(f / sr, q)
low_pass(f, sr, q) ==
  LET t == Trig[sr][f]
      alpha == Alpha(t, q)
  IN IIRFilter((CoefScale - t.cos) \div 2, CoefScale - t.cos, (CoefScale - t.cos) \div 2,
               CoefScale + alpha, -2 * t.cos, CoefScale - alpha)

\* IIRFilter::high_pass(f / sr, q)
high_pass(f, sr, q) ==
  LET t == Trig[sr][f]
      alpha == Alpha(t, q)
  IN IIRFilter((CoefScale + t.cos) \div 2, -(CoefScale + t.cos), (CoefScale + t.cos) \div 2,
               CoefScale + alpha, -2 * t.cos, CoefScale - alpha)

\* IIRFilter::peak(f / sr, q, gain), gain in dB in units of 1/Scale
peak(f, sr, q, gain) ==
  LET t == Trig[sr][f]
      alpha == Alpha(t, q)
      a == Pow10Div20(gain \div 2)          \* 10^(gain/40)
  IN IIRFilter(CoefScale + (alpha * a) \div Scale, -2 * t.cos, CoefScale - (alpha * a) \div Scale,
               CoefScale + (alpha * Scale) \div a, -2 * t.cos, CoefScale - (alpha * Scale) \div a)

\* IIRFilter::process: the filter after the step, and the output sample
process(flt, input) ==
  LET x == <<input, flt.x[1], flt.x[2]>>
      output == (flt.b[1] * x[1] + flt.b[2] * x[2] + flt.b[3] * x[3]
                 - flt.a[2] * flt.y[1] - flt.a[3] * flt.y[2]) \div CoefScale
  IN [st |-> [flt EXCEPT !.x = x, !.y = <<output, flt.y[1], flt.y[2]>>],
      out |-> output]

\* the loop `for i in 0..len { .. filter.process(audio_data[i]) .. }` over
\* audio_data[lo..hi]
RECURSIVE RunFilter(_, _, _, _)
RunFilter(flt, audio_data, lo, hi) ==
  IF lo > hi THEN [st |-> flt, out |-> <<>>]
  ELSE IF lo = hi THEN The({First(r) : r \in {process(flt, audio_data[lo])}})
  ELSE The({The({Joined(l, r) :
                   r \in {RunFilter(l.st, audio_data, (lo + hi) \div 2 + 1, hi)}}) :
              l \in {RunFilter(flt, audio_data, lo, (lo + hi) \div 2)}})

---------------------------------------------------------------------------
(* AudioProcessor (audio_processor/src/lib.rs): the one-shot operations *)

\* the fast-path test of apply_equalizer, lines 145-147
EqualizerIsFlat(settings) ==
  /\ Abs(settings.bass - Scale) < Scale \div 100
  /\ Abs(settings.mid - Scale) < Scale \div 100
  /\ Abs(settings.treble - Scale) < Scale \div 100

\* a three-band processing that multiplies the mid band by the mid gain
EqualizerBandsScalesMid(sr, audio_data, settings) ==
  LET n == Len(audio_data)
      bass == RunFilter(low_pass(200, sr, 707), audio_data, 1, n).out
      mid == RunFilter(peak(1000, sr, Scale, (settings.mid - Scale) * 12), audio_data, 1, n).out
      treble == RunFilter(high_pass(4000, sr, 707), audio_data, 1, n).out
  IN [i \in 1..n |->
        ((bass[i] * settings.bass) \div Scale
         + (mid[i] * settings.mid) \div Scale
         + (treble[i] * settings.treble) \div Scale) \div 3]

\* the three-band processing of apply_equalizer, lines 151-184
EqualizerBands(sr, audio_data, settings) ==
  LET n == Len(audio_data)
      bass == RunFilter(low_pass(200, sr, 707), audio_data, 1, n).out
      mid == RunFilter(peak(1000, sr, Scale, (settings.mid - Scale) * 12), audio_data, 1, n).out
      treble == RunFilter(high_pass(4000, sr, 707), audio_data, 1, n).out
  IN [i \in 1..n |->
        ((bass[i] * settings.bass) \div Scale
         + mid[i]
         + (treble[i] * settings.treble) \div Scale) \div 3]

\* EqualizerBands on the frames the specifications equalize
EqualizerBandsTable ==
  [k \in [sr : SampleRates, audio_data : Frames, settings : {EqBoost}] |->
     EqualizerBands(k.sr, k.audio_data, k.settings) \o <<>>] @@ <<>>

\* the frames the engine analyses: those handed in, and those equalized
AnalysedFrames ==
  Frames \cup {EqualizerBandsTable[k] : k \in DOMAIN EqualizerBandsTable}

\* AudioProcessor::apply_equalizer(&self, audio_data, settings)
apply_equalizer(sr, audio_data, settings) ==
  IF ~settings.decodes THEN [result |-> "Err", audio_data |-> audio_data]
  ELSE IF EqualizerIsFlat(settings) THEN [result |-> "Ok", audio_data |-> audio_data]
  ELSE [result |-> "Ok",
        audio_data |->
          Lookup(EqualizerBandsTable,
                 [sr |-> sr, audio_data |-> audio_data, settings |-> settings],
                 EqualizerBands(sr, audio_data, settings))]

\* one iteration of the loop of apply_compression, lines 202-226:
\* the envelope after it and the sample after it
CompressSample(env, sample, attack_coef, release_coef, settings) ==
  LET input_level == FAbs(sample)
      coef == IF FGt(input_level, env) THEN attack_coef ELSE release_coef
      e == FSub(FMul(coef, FSub(env, input_level)), FNeg(input_level))
      slope == FSub(Scale, FDiv(Scale, settings.ratio))
      gain_reduction ==
        IF FGt(e, settings.threshold)
        THEN FMul(slope, FSub(Log10Times20(e), settings.threshold))
        ELSE 0
      gain == FMul(Pow10Div20(FNeg(gain_reduction)), Pow10Div20(settings.makeup_gain))
  IN [st |-> e, out |-> FMul(sample, gain)]

\* the loop of apply_compression over audio_data[lo..hi], entered with the
\* envelope env
RECURSIVE RunCompression(_, _, _, _, _, _, _)
RunCompression(env, audio_data, lo, hi, attack_coef, release_coef, settings) ==
  IF lo > hi THEN [st |-> env, out |-> <<>>]
  ELSE IF lo = hi
       THEN The({First(r) :
                   r \in {CompressSample(env, audio_data[lo], attack_coef, release_coef,
                                         settings)}})
  ELSE The({The({Joined(l, r) :
                   r \in {RunCompression(l.st, audio_data, (lo + hi) \div 2 + 1, hi,
                                         attack_coef, release_coef, settings)}}) :
              l \in {RunCompression(env, audio_data, lo, (lo + hi) \div 2,
                                    attack_coef, release_coef, settings)}})

\* (-1.0 / (t * sample_rate)).exp(), t in seconds in units of 1/Scale
TimeCoef(t, sr) == Exp(FDiv(-Scale, t * sr))

\* AudioProcessor::apply_compression(&self, audio_data, settings)
apply_compression(sr, audio_data, settings) ==
  IF ~settings.decodes THEN [result |-> "Err", audio_data |-> audio_data]
  ELSE [result |-> "Ok",
        audio_data |->
          RunCompression(0, audio_data, 1, Len(audio_data),
                         TimeCoef(settings.attack, sr), TimeCoef(settings.release, sr),
                         settings).out]

\* AudioProcessor::generate_waveform(&self, audio_data, num_points);
\* the integer division by num_points = 0 panics
generate_waveform(audio_data, num_points) ==
  LET n == Len(audio_data) IN
  IF n = 0 THEN [result |-> "Ok", value |-> [i \in 1..num_points |-> 0]]
  ELSE IF num_points = 0 THEN [result |-> "Panic", value |-> <<>>]
  ELSE LET samples_per_point == n \div num_points IN
       IF samples_per_point < 1
       THEN [result |-> "Ok",
             value |-> [i \in 1..num_points |->
                          LET idx == ((i - 1) * n) \div num_points
                          IN Abs(audio_data[Min(idx, n - 1) + 1])]]
       ELSE [result |-> "Ok",
             value |-> [i \in 1..num_points |->
                          LET start == (i - 1) * samples_per_point
                              end == Min(i * samples_per_point, n)
                          IN MaxRange([j \in 1..n |-> Abs(audio_data[j])], start + 1, end)]]

---------------------------------------------------------------------------
(* Windows and the transform library *)

\* the Hann window 0.5 * (1 - cos(2 pi i / (size - 1))) = sin^2(pi i / (size - 1)),
\* i in 0..size-1, in units of 1/Scale, with sin(pi p) = 16 p (1-p) / (5 - 4 p (1-p))
Hann(i, size) ==
  LET u == (i * (size - 1 - i) * Scale) \div ((size - 1) * (size - 1))
      sin == (16 * u * Scale) \div (5 * Scale - 4 * u)
  IN (sin * sin) \div Scale

\* realfft forward transform of `size` samples: size/2 + 1 complex bins.
\* Stand-in for the library: bin k < size/2 holds the sum and the difference
\* of samples 2k and 2k+1, the last bin is empty.
RealFft(buffer, size) ==
  [k \in 1..(size \div 2 + 1) |->
     IF k <= size \div 2
     THEN [re |-> buffer[2 * k - 1] + buffer[2 * k], im |-> buffer[2 * k - 1] - buffer[2 * k]]
     ELSE [re |-> 0, im |-> 0]]

\* realfft inverse transform (unnormalised: the inverse of the forward
\* transform, times size)
RealIfft(spectrum, size) ==
  [j \in 1..size |->
     LET bin == spectrum[(j + 1) \div 2]
     IN IF j % 2 = 1 THEN (size * (bin.re + bin.im)) \div 2
        ELSE (size * (bin.re - bin.im)) \div 2]

\* (re * re + im * im).sqrt()
Magnitude(bin) == Isqrt(bin.re * bin.re + bin.im * bin.im)

---------------------------------------------------------------------------
(* AudioProcessor (audio_processor/src/lib.rs): denoising and analysis *)

\* hop_size = fft_size / 4
HopSize == DenoiseFftSize \div 4

\* the frame starts of denoise_audio, line 261:
\* (0..len.saturating_sub(fft_size)).step_by(hop_size)
FrameStarts(len) ==
  {i \in 0..(Max(len - DenoiseFftSize, 0) - 1) : i % HopSize = 0}

\* spectral subtraction of one bin, lines 275-297
SubtractNoise(bin, noise_threshold) ==
  LET magnitude == Magnitude(bin)
      new_magnitude == IF magnitude > noise_threshold THEN magnitude - noise_threshold ELSE 0
  IN IF magnitude > 0
     THEN [re |-> (bin.re * new_magnitude) \div magnitude,
           im |-> (bin.im * new_magnitude) \div magnitude]
     ELSE [re |-> 0, im |-> 0]

\* the body of the frame loop of denoise_audio for the frame starting at i
\* (0-based), lines 262-307: what the frame adds to processed_audio[i + j],
\* j in 0..fft_size-1, as a sequence
DenoiseFrame(audio_data, i, noise_threshold) ==
  LET len == Len(audio_data)
      buffer == [j \in 1..DenoiseFftSize |->
                   IF i + (j - 1) < len
                   THEN (audio_data[i + j] * Hann(j - 1, DenoiseFftSize)) \div Scale
                   ELSE 0]
      spectrum == RealFft(buffer, DenoiseFftSize)
      cleaned == [k \in DOMAIN spectrum |-> SubtractNoise(spectrum[k], noise_threshold)]
      output_buffer == RealIfft(cleaned, DenoiseFftSize)
  IN [j \in 1..DenoiseFftSize |->
        (((output_buffer[j] * Hann(j - 1, DenoiseFftSize)) \div Scale) * 2)
           \div (DenoiseFftSize * 3)]

\* processed_audio after the frame loop: the overlap-add of all frames
OverlapAdd(audio_data, noise_threshold) ==
  LET len == Len(audio_data)
      starts == FrameStarts(len)
      frames == [i \in starts |-> DenoiseFrame(audio_data, i, noise_threshold)]
      nframes == Cardinality(starts)
  IN [n \in 1..len |->
        SumRange([k \in 0..(nframes - 1) |->
                    LET i == k * HopSize
                    IN IF i < n /\ n <= i + DenoiseFftSize THEN frames[i][n - i] ELSE 0],
                 0, nframes - 1)]

\* the noise thresholds the specifications denoise with
NoiseThresholds == {0, 100 * Scale}

\* OverlapAdd on the buffers the specifications denoise
OverlapAddTable ==
  [k \in [audio_data : {b \in DenoiseBuffers : Len(b) >= DenoiseFftSize},
          noise_threshold : NoiseThresholds] |->
     OverlapAdd(k.audio_data, k.noise_threshold) \o <<>>] @@ <<>>

\* a denoiser that also refuses a buffer of exactly fft_size samples
\* (`<=` for `<` at line 240)
DenoiseRefusesFullWindow(audio_data, noise_threshold) ==
  IF Len(audio_data) <= DenoiseFftSize
  THEN [result |-> "Err", audio_data |-> audio_data]
  ELSE [result |-> "Ok", audio_data |-> OverlapAdd(audio_data, noise_threshold)]

\* AudioProcessor::denoise_audio(&self, audio_data, noise_threshold)
denoise_audio(audio_data, noise_threshold) ==
  IF Len(audio_data) < DenoiseFftSize
  THEN [result |-> "Err", audio_data |-> audio_data]
  ELSE [result |-> "Ok",
        audio_data |->
          Lookup(OverlapAddTable,
                 [audio_data |-> audio_data, noise_threshold |-> noise_threshold],
                 OverlapAdd(audio_data, noise_threshold))]

\* the body of AudioProcessor::calculate_rms
RootMeanSquare(audio_data) ==
  LET n == Len(audio_data) IN
  IF n = 0 THEN 0
  ELSE Sqrt(SumRange([i \in 1..n |-> audio_data[i] * audio_data[i]], 1, n) \div n)

RootMeanSquareTable == [b \in AnalysedFrames |-> RootMeanSquare(b)] @@ <<>>

\* AudioProcessor::calculate_rms
calculate_rms(audio_data) == Lookup(RootMeanSquareTable, audio_data, RootMeanSquare(audio_data))

\* the body of AudioProcessor::calculate_peak
PeakLevel(audio_data) ==
  LET n == Len(audio_data) IN
  IF n = 0 THEN 0
  ELSE MaxRange([i \in 1..n |-> Abs(audio_data[i])], 1, n)

PeakLevelTable == [b \in Frames |-> PeakLevel(b)] @@ <<>>

\* AudioProcessor::calculate_peak
calculate_peak(audio_data) == Lookup(PeakLevelTable, audio_data, PeakLevel(audio_data))

\* the input handed to the pitch detector, lines 378-379: the middle
\* 1024 samples
PitchInput(audio_data) ==
  LET start == Max(Len(audio_data) - PitchMinLen, 0) \div 2
  IN [j \in 1..Min(PitchMinLen, Len(audio_data) - start) |-> audio_data[start + j]]

\* a pitch detection that runs the detector from 512 samples on
DetectPitchFromHalfWindow(mcleod, audio_data) ==
  IF Len(audio_data) < SpectrumMinLen THEN None
  ELSE mcleod

\* AudioProcessor::detect_pitch; mcleod is what McLeodDetector::get_pitch
\* answers for PitchInput(audio_data)
detect_pitch(mcleod, audio_data) ==
  IF Len(audio_data) < PitchMinLen THEN None
  ELSE mcleod

\* the body of AudioProcessor::calculate_spectral_centroid
SpectralCentroid(audio_data) ==
  IF Len(audio_data) < PitchMinLen THEN 0
  ELSE LET taken == PitchInput(audio_data)
           buffer == [i \in 1..Len(taken) |-> (taken[i] * Hann(i - 1, Len(taken))) \div Scale]
           spectrum == RealFft(buffer, SpectrumFftSize)
           nbins == Len(spectrum)
           mags == [k \in 1..nbins |-> Magnitude(spectrum[k])]
           weighted_sum == SumRange([k \in 1..nbins |-> (k - 1) * mags[k]], 1, nbins)
           sum == SumRange(mags, 1, nbins)
       IN IF sum > 0
          THEN (weighted_sum \div sum) * Scale + ((weighted_sum % sum) * Scale) \div sum
          ELSE 0

SpectralCentroidTable == [b \in Frames |-> SpectralCentroid(b)] @@ <<>>

\* AudioProcessor::calculate_spectral_centroid
calculate_spectral_centroid(audio_data) ==
  Lookup(SpectralCentroidTable, audio_data, SpectralCentroid(audio_data))

\* the body of AudioProcessor::calculate_zero_crossing_rate
ZeroCrossingRate(audio_data) ==
  LET n == Len(audio_data) IN
  IF n <= 1 THEN 0
  ELSE LET count == Cardinality({i \in 2..n :
                       \/ audio_data[i] >= 0 /\ audio_data[i - 1] < 0
                       \/ audio_data[i] < 0 /\ audio_data[i - 1] >= 0})
       IN (count * Scale) \div (n - 1)

ZeroCrossingRateTable == [b \in Frames |-> ZeroCrossingRate(b)] @@ <<>>

\* AudioProcessor::calculate_zero_crossing_rate
calculate_zero_crossing_rate(audio_data) ==
  Lookup(ZeroCrossingRateTable, audio_data, ZeroCrossingRate(audio_data))

\* AudioProcessor::analyze_audio(&self, audio_data)
analyze_audio(mcleod, audio_data) ==
  [result |-> "Ok",
   value |-> [rms |-> calculate_rms(audio_data),
              peak |-> calculate_peak(audio_data),
              pitch |-> detect_pitch(mcleod, audio_data),
              spectral_centroid |-> calculate_spectral_centroid(audio_data),
              zero_crossing_rate |-> calculate_zero_crossing_rate(audio_data)]]

---------------------------------------------------------------------------
(* AudioProcessor (audio_processor/src/lib.rs): the streaming state *)

Zeros(n) == [i \in 1..n |-> 0]

\* prev_spectrum: None, an Option<Vec<f32>>
NoSpectrum == [some |-> FALSE, v |-> <<>>]

\* AudioProcessor::new() (fft_planner is Some from construction on and is
\* never reassigned; it is not part of the state)
new ==
  [sample_rate |-> DefaultSampleRate,
   envelope |-> 0,
   pitch_history |-> Zeros(PitchCapacity),
   spectral_flux_history |-> Zeros(FluxCapacity),
   rms_history |-> Zeros(RmsCapacity),
   prev_spectrum |-> NoSpectrum]

\* a push that evicts the newest element instead of the oldest
\* (history.pop() for history.remove(0))
HistoryPushEvictsNewest(history, value) ==
  Append(SubSeq(history, 1, Len(history) - 1), value)

\* history.remove(0); history.push(value)
HistoryPush(history, value) == Append(Tail(history), value)

\* the analysis window of analyze_spectrum_internal, lines 500-511: the last
\* fft_size samples, windowed, zero-padded at the end
AnalysisWindow(audio_data) ==
  LET len == Len(audio_data)
      start_idx == Max(len - SpectrumFftSize, 0)
  IN [j \in 1..SpectrumFftSize |->
        IF start_idx + (j - 1) < len
        THEN (audio_data[start_idx + j] * Hann(j - 1, SpectrumFftSize)) \div Scale
        ELSE 0]

\* the magnitudes of analyze_spectrum_internal, lines 513-540
WindowedMagnitudes(audio_data) ==
  LET spectrum == RealFft(AnalysisWindow(audio_data), SpectrumFftSize)
  IN [k \in 1..Len(spectrum) |-> Magnitude(spectrum[k])]

WindowedMagnitudesTable ==
  [b \in {f \in AnalysedFrames : Len(f) >= SpectrumMinLen} |->
     WindowedMagnitudes(b) \o <<>>] @@ <<>>

Magnitudes(audio_data) ==
  Lookup(WindowedMagnitudesTable, audio_data, WindowedMagnitudes(audio_data))

\* the loop of lines 553-561: the sum of the increases of magnitude
SumOfIncreases(prev_spectrum_v, magnitudes) ==
  LET min_len == Min(Len(prev_spectrum_v), Len(magnitudes))
  IN SumRange([i \in 1..min_len |->
                 LET diff == magnitudes[i] - prev_spectrum_v[i]
                 IN IF diff > 0 THEN diff ELSE 0],
              1, min_len)

SumOfIncreasesTable ==
  LET known == {WindowedMagnitudesTable[b] : b \in DOMAIN WindowedMagnitudesTable}
  IN [k \in [prev : known, magnitudes : known] |->
        SumOfIncreases(k.prev, k.magnitudes)] @@ <<>>

\* a flux that takes a missing previous spectrum for silence
SpectralFluxFromSilence(prev, magnitudes) ==
  IF prev.some THEN SumOfIncreases(prev.v, magnitudes)
  ELSE SumRange(magnitudes, 1, Len(magnitudes))

\* the spectral flux of analyze_spectrum_internal, lines 550-566
SpectralFlux(prev, magnitudes) ==
  IF prev.some
  THEN Lookup(SumOfIncreasesTable, [prev |-> prev.v, magnitudes |-> magnitudes],
              SumOfIncreases(prev.v, magnitudes))
  ELSE 0

\* an update of prev_spectrum that keeps the first spectrum stored
StorePrevSpectrumOnce(prev, magnitudes) == IF prev.some THEN prev ELSE Some(magnitudes)

\* the update of prev_spectrum, line 569
StorePrevSpectrum(prev, magnitudes) == Some(magnitudes)

\* an analysis that forgets the previous spectrum when it fails
AnalyzeSpectrumForgetsOnFailure(self, audio_data) ==
  IF Len(audio_data) < SpectrumMinLen
  THEN [self |-> [self EXCEPT !.prev_spectrum = NoSpectrum], value |-> None]
  ELSE [self |-> [self EXCEPT !.prev_spectrum = Some(Magnitudes(audio_data))],
        value |-> Some([magnitudes |-> Magnitudes(audio_data),
                        spectral_flux |-> SpectralFlux(self.prev_spectrum,
                                                       Magnitudes(audio_data))])]

\* AudioProcessor::analyze_spectrum_internal(&mut self, audio_data); of the
\* result only magnitudes and spectral_flux are modelled
analyze_spectrum_internal(self, audio_data) ==
  IF Len(audio_data) < SpectrumMinLen THEN [self |-> self, value |-> None]
  ELSE The({[self |-> [self EXCEPT !.prev_spectrum =
                                     StorePrevSpectrum(self.prev_spectrum, magnitudes)],
             value |-> Some([magnitudes |-> magnitudes,
                             spectral_flux |-> SpectralFlux(self.prev_spectrum, magnitudes)])] :
              magnitudes \in {Magnitudes(audio_data)}})

\* AudioProcessor::analyze_spectrum_data(&mut self, audio_data)
analyze_spectrum_data(self, audio_data) ==
  The({IF r.value.some THEN [self |-> r.self, result |-> "Ok", value |-> r.value.v]
       ELSE [self |-> r.self, result |-> "Err", value |-> None] :
         r \in {analyze_spectrum_internal(self, audio_data)}})

\* the snapshot RealTimeProcessorState { .. } built from self
ProcessorState(self) ==
  [envelope |-> self.envelope,
   pitch_history |-> self.pitch_history,
   spectral_flux_history |-> self.spectral_flux_history,
   rms_history |-> self.rms_history]

\* a state query that reports the envelope of construction
GetProcessorStateOfConstruction(self) ==
  [result |-> "Ok", value |-> [ProcessorState(self) EXCEPT !.envelope = 0]]

\* AudioProcessor::get_processor_state(&self)
get_processor_state(self) == [result |-> "Ok", value |-> ProcessorState(self)]

\* the update of the pitch history without the eviction (line 466 missing)
UpdatePitchHistoryGrows(history, pitch) ==
  IF pitch.some THEN Append(history, pitch.v) ELSE history

\* lines 465-468 of process_audio_frame
UpdatePitchHistory(history, pitch) ==
  IF pitch.some THEN HistoryPush(history, pitch.v) ELSE history

\* lines 471-476 of process_audio_frame
UpdateFluxHistory(history, spectrum_data) ==
  IF spectrum_data.result = "Ok"
  THEN HistoryPush(history, spectrum_data.value.spectral_flux)
  ELSE history

\* lines 455-486 of process_audio_frame: the frame is equalized; rms, pitch
\* and spectrum_data are what the three analyses of it returned
UpdateState(self, frame, current_rms, pitch, spectrum_data) ==
  The({[self |-> after, audio_frame |-> frame, result |-> "Ok",
        value |-> ProcessorState(after),
        pushed |-> [rms |-> Some(current_rms), pitch |-> pitch,
                    flux |-> IF spectrum_data.result = "Ok"
                             THEN Some(spectrum_data.value.spectral_flux) ELSE None]] :
         after \in {[spectrum_data.self EXCEPT
                       !.envelope = (9 * self.envelope + current_rms) \div 10,
                       !.rms_history = HistoryPush(self.rms_history, current_rms),
                       !.pitch_history = UpdatePitchHistory(self.pitch_history, pitch),
                       !.spectral_flux_history =
                           UpdateFluxHistory(self.spectral_flux_history, spectrum_data)]}})

\* a frame handler that measures the frame and updates the envelope and the
\* RMS history before it decodes the settings
ProcessAudioFrameDecodesLate(self, mcleod, audio_frame, settings) ==
  The({IF eq.result = "Err"
       THEN [self |-> [self EXCEPT
                         !.envelope = (9 * self.envelope + calculate_rms(audio_frame)) \div 10,
                         !.rms_history = HistoryPush(self.rms_history,
                                                     calculate_rms(audio_frame))],
             audio_frame |-> eq.audio_data, result |-> "Err", value |-> None,
             pushed |-> [rms |-> None, pitch |-> None, flux |-> None]]
       ELSE UpdateState(self, eq.audio_data,
                        calculate_rms(eq.audio_data),
                        detect_pitch(mcleod, eq.audio_data),
                        analyze_spectrum_data(self, eq.audio_data)) :
         eq \in {apply_equalizer(self.sample_rate, audio_frame, settings)}})

\* a process_audio_frame that measures the rms of the frame it was handed,
\* not of the equalized frame
ProcessAudioFrameMeasuresInput(self, mcleod, audio_frame, settings) ==
  The({IF eq.result = "Err"
       THEN [self |-> self, audio_frame |-> eq.audio_data, result |-> "Err", value |-> None,
             pushed |-> [rms |-> None, pitch |-> None, flux |-> None]]
       ELSE UpdateState(self, eq.audio_data,
                        calculate_rms(audio_frame),
                        detect_pitch(mcleod, eq.audio_data),
                        analyze_spectrum_data(self, eq.audio_data)) :
         eq \in {apply_equalizer(self.sample_rate, audio_frame, settings)}})

\* AudioProcessor::process_audio_frame(&mut self, audio_frame, settings):
\* the engine and the frame after the call, its result and value, and what
\* it pushed into each history
process_audio_frame(self, mcleod, audio_frame, settings) ==
  The({IF eq.result = "Err"
       THEN [self |-> self, audio_frame |-> eq.audio_data, result |-> "Err", value |-> None,
             pushed |-> [rms |-> None, pitch |-> None, flux |-> None]]
       ELSE UpdateState(self, eq.audio_data,
                        calculate_rms(eq.audio_data),
                        detect_pitch(mcleod, eq.audio_data),
                        analyze_spectrum_data(self, eq.audio_data)) :
         eq \in {apply_equalizer(self.sample_rate, audio_frame, settings)}})

---------------------------------------------------------------------------
(* The earlier draft (src/RustWebAssembly/lib.rs): BiquadFilter and its     *)
(* AudioProcessor.  Its sample_rate is a constructor argument; the model    *)
(* constructs it with 44100.                                                *)

\* BiquadFilter::calculate_coefficients: a0, a1, a2, b1, b2 in units of
\* 1/CoefScale; q and gain in units of 1/Scale
calculate_coefficients(filter_type, frequency, q, gain, sr) ==
  LET t == Trig[sr][frequency]
      alpha == Alpha(t, q)
      norm == CoefScale + alpha
      b1 == CoefDiv(-2 * t.cos, norm)
      b2 == CoefDiv(CoefScale - alpha, norm)
  IN IF filter_type = 1
     THEN [a0 |-> CoefDiv((alpha * gain) \div Scale, norm), a1 |-> 0,
           a2 |-> CoefDiv(-((alpha * gain) \div Scale), norm), b1 |-> b1, b2 |-> b2]
     ELSE IF filter_type = 2
     THEN [a0 |-> CoefDiv((CoefScale + t.cos) \div 2, norm),
           a1 |-> CoefDiv(-(CoefScale + t.cos), norm),
           a2 |-> CoefDiv((CoefScale + t.cos) \div 2, norm), b1 |-> b1, b2 |-> b2]
     ELSE [a0 |-> CoefDiv((CoefScale - t.cos) \div 2, norm),
           a1 |-> CoefDiv(CoefScale - t.cos, norm),
           a2 |-> CoefDiv((CoefScale - t.cos) \div 2, norm), b1 |-> b1, b2 |-> b2]

\* BiquadFilter::process with coefficients c on the state st = [x1, x2]
BiquadProcess(c, st, input) ==
  LET output == (c.a0 * input) \div CoefScale + st.x1
  IN [st |-> [x1 |-> (c.a1 * input - c.b1 * output) \div CoefScale + st.x2,
              x2 |-> (c.a2 * input - c.b2 * output) \div CoefScale],
      out |-> output]

\* the three filter states after AudioProcessor::new(sample_rate, channels)
BiquadNew ==
  [low |-> [x1 |-> 0, x2 |-> 0], mid |-> [x1 |-> 0, x2 |-> 0], high |-> [x1 |-> 0, x2 |-> 0]]

\* one iteration of the sample loop of the draft's apply_equalizer,
\* lines 219-241: low, then mid, then high, each fed the previous output
CascadeSample(c, st, sample) ==
  LET lo == BiquadProcess(c.low, st.low, sample)
      mi == BiquadProcess(c.mid, st.mid, lo.out)
      hi == BiquadProcess(c.high, st.high, mi.out)
  IN [st |-> [low |-> lo.st, mid |-> mi.st, high |-> hi.st], out |-> hi.out]

\* the sample loop of the draft's apply_equalizer over audio_data[lo..hi]
RECURSIVE RunCascade(_, _, _, _, _)
RunCascade(c, st, audio_data, lo, hi) ==
  IF lo > hi THEN [st |-> st, out |-> <<>>]
  ELSE IF lo = hi THEN The({First(r) : r \in {CascadeSample(c, st, audio_data[lo])}})
  ELSE The({The({Joined(l, r) :
                   r \in {RunCascade(c, l.st, audio_data, (lo + hi) \div 2 + 1, hi)}}) :
              l \in {RunCascade(c, st, audio_data, lo, (lo + hi) \div 2)}})

\* the draft's AudioProcessor::apply_equalizer(&mut self, audio_data, bass, mid, treble)
draft_apply_equalizer(st, audio_data, bass, mid, treble) ==
  The({[st |-> r.st, audio_data |-> r.out] :
         r \in {RunCascade([low |-> calculate_coefficients(0, 200, 700, bass, DefaultSampleRate),
                            mid |-> calculate_coefficients(1, 1000, 700, mid, DefaultSampleRate),
                            high |-> calculate_coefficients(2, 5000, 700, treble, DefaultSampleRate)],
                           st, audio_data, 1, Len(audio_data))}})

\* one iteration of the loop of the draft's apply_compressor, lines 282-304
CompressorSample(env, input, threshold, ratio, attack_coef, release_coef) ==
  LET input_abs == FAbs(input)
      coef == IF FGt(input_abs, env) THEN attack_coef ELSE release_coef
      e == FSub(input_abs, FNeg(FMul(coef, FSub(env, input_abs))))
      gain ==
        IF FGt(e, threshold)
        THEN LET excess_db == Log10Times20(FDiv(e, threshold))
                 attenuation_db == FMul(excess_db, FSub(Scale, FDiv(Scale, ratio)))
             IN Pow10Div20(FNeg(attenuation_db))
        ELSE Scale
  IN [st |-> e, out |-> FMul(input, gain)]

\* the loop of the draft's apply_compressor over audio_data[lo..hi], entered
\* with the envelope env
RECURSIVE RunCompressor(_, _, _, _, _, _, _, _)
RunCompressor(env, audio_data, lo, hi, threshold, ratio, attack_coef, release_coef) ==
  IF lo > hi THEN [st |-> env, out |-> <<>>]
  ELSE IF lo = hi
       THEN The({First(r) :
                   r \in {CompressorSample(env, audio_data[lo], threshold, ratio,
                                           attack_coef, release_coef)}})
  ELSE The({The({Joined(l, r) :
                   r \in {RunCompressor(l.st, audio_data, (lo + hi) \div 2 + 1, hi,
                                        threshold, ratio, attack_coef, release_coef)}}) :
              l \in {RunCompressor(env, audio_data, lo, (lo + hi) \div 2,
                                   threshold, ratio, attack_coef, release_coef)}})

\* the draft's AudioProcessor::apply_compressor(&self, audio_data, threshold, ratio, attack, release)
apply_compressor(audio_data, threshold, ratio, attack, release) ==
  RunCompressor(0, audio_data, 1, Len(audio_data), threshold, ratio,
                TimeCoef(attack, DefaultSampleRate), TimeCoef(release, DefaultSampleRate)).out

\* the draft's AudioProcessor::generate_waveform_data(&self, audio_data, num_points);
\* the integer division by num_points = 0 panics
generate_waveform_data(audio_data, num_points) ==
  LET length == Len(audio_data) IN
  IF num_points = 0 THEN [result |-> "Panic", value |-> <<>>]
  ELSE LET samples_per_point == length \div num_points IN
       IF samples_per_point = 0 THEN [result |-> "Ok", value |-> Zeros(num_points)]
       ELSE LET waveform ==
                  [i \in 1..num_points |->
                     LET start == (i - 1) * samples_per_point
                         end == Min(start + samples_per_point, length)
                         sum_squared == SumRange([j \in 1..length |-> audio_data[j] * audio_data[j]],
                                                 start + 1, end)
                     IN IF end > start THEN Sqrt(sum_squared \div (end - start)) ELSE 0]
                max_value == MaxRange(waveform, 1, num_points)
            IN [result |-> "Ok",
                value |-> IF max_value > 0
                          THEN [i \in 1..num_points |-> (waveform[i] * Scale) \div max_value]
                          ELSE waveform]

---------------------------------------------------------------------------
(* State *)

\* the AudioProcessor the variables hold
Self ==
  [sample_rate |-> sample_rate,
   envelope |-> envelope,
   pitch_history |-> pitch_history,
   spectral_flux_history |-> spectral_flux_history,
   rms_history |-> rms_history,
   prev_spectrum |-> prev_spectrum]

SetSelf(self) ==
  /\ sample_rate' = self.sample_rate
  /\ envelope' = self.envelope
  /\ pitch_history' = self.pitch_history
  /\ spectral_flux_history' = self.spectral_flux_history
  /\ rms_history' = self.rms_history
  /\ prev_spectrum' = self.prev_spectrum

engine == <<sample_rate, envelope, pitch_history, spectral_flux_history,
            rms_history, prev_spectrum>>

\* the record of a call: the operation, the buffer handed in, the other
\* argument (a record: the settings, or the named number, or None), the
\* buffer afterwards, "Ok", "Err" or "Panic", the value returned (a record,
\* None if there is none), and the flux of the spectral analysis the call
\* ran (if it ran one)
Call(op, input, arg, output, result, value, flux) ==
  [op |-> op, input |-> input, arg |-> arg, output |-> output,
   result |-> result, value |-> value, flux |-> flux]

\* bookkeeping of a run: every value pushed into each history so far; the
\* number (up to 2), frames and magnitudes of the last two successful
\* spectral analyses; whether an analysis failed since the last successful
\* one, and whether one failed between the last two; the number of frames
\* and the first inputs of the stream of SpecStream; the snapshot the last
\* successful process_audio_frame returned (the one of construction before)
InitHist ==
  [rms_pushed |-> <<>>, flux_pushed |-> <<>>, pitch_pushed |-> <<>>,
   analyses |-> 0,
   prev_frame |-> <<>>, prev_magnitudes |-> <<>>,
   last_frame |-> <<>>, last_magnitudes |-> <<>>,
   failed_since |-> FALSE, failed_between |-> FALSE,
   nframes |-> 0, pattern |-> <<>>,
   last_state |-> ProcessorState(new)]

\* bookkeeping after a successful spectral analysis of `frame`
NoteAnalysis(h, frame) ==
  [h EXCEPT !.analyses = IF @ < 2 THEN @ + 1 ELSE @,
            !.prev_frame = h.last_frame, !.prev_magnitudes = h.last_magnitudes,
            !.last_frame = frame, !.last_magnitudes = Magnitudes(frame),
            !.failed_between = h.failed_since, !.failed_since = FALSE]

\* bookkeeping after a process_audio_frame call that returned r
NotePushes(h, r) ==
  The({IF r.pushed.flux.some THEN NoteAnalysis(h1, r.audio_frame)
       ELSE IF r.result = "Ok" THEN [h1 EXCEPT !.failed_since = TRUE]
       ELSE h1 :
         h1 \in {[h EXCEPT
                    !.rms_pushed = IF r.pushed.rms.some THEN Append(@, r.pushed.rms.v) ELSE @,
                    !.pitch_pushed = IF r.pushed.pitch.some THEN Append(@, r.pushed.pitch.v) ELSE @,
                    !.flux_pushed = IF r.pushed.flux.some THEN Append(@, r.pushed.flux.v) ELSE @,
                    !.last_state = IF r.result = "Ok" THEN r.value ELSE @]}})

Init ==
  /\ sample_rate = new.sample_rate
  /\ envelope = new.envelope
  /\ pitch_history = new.pitch_history
  /\ spectral_flux_history = new.spectral_flux_history
  /\ rms_history = new.rms_history
  /\ prev_spectrum = new.prev_spectrum
  /\ biquad = BiquadNew
  /\ call = Call("new", <<>>, None, <<>>, "Ok", None, None)
  /\ hist = InitHist
  /\ ncalls = 0

---------------------------------------------------------------------------
(* Operations of the engine *)

\* AudioProcessor::set_sample_rate
SetSampleRate(R) ==
  /\ ncalls < MaxCalls
  /\ \E sr \in R :
       /\ sample_rate' = sr
       /\ call' = Call("set_sample_rate", <<>>, [sample_rate |-> sr], <<>>, "Ok", None, None)
  /\ ncalls' = ncalls + 1
  /\ UNCHANGED <<envelope, pitch_history, spectral_flux_history, rms_history,
                 prev_spectrum, biquad, hist>>

\* AudioProcessor::generate_waveform
GenerateWaveform(B, N) ==
  /\ \E b \in B, n \in N :
       LET r == generate_waveform(b, n)
       IN call' = Call("generate_waveform", b, [num_points |-> n], b, r.result,
                       [waveform |-> r.value], None)
  /\ UNCHANGED <<engine, biquad, hist, ncalls>>

\* AudioProcessor::apply_equalizer
ApplyEqualizer(B, S) ==
  /\ \E b \in B, s \in S :
       LET r == apply_equalizer(sample_rate, b, s)
       IN call' = Call("apply_equalizer", b, s, r.audio_data, r.result, None, None)
  /\ UNCHANGED <<engine, biquad, hist, ncalls>>

\* AudioProcessor::apply_compression
ApplyCompression(B, S) ==
  /\ \E b \in B, s \in S :
       LET r == apply_compression(sample_rate, b, s)
       IN call' = Call("apply_compression", b, s, r.audio_data, r.result, None, None)
  /\ UNCHANGED <<engine, biquad, hist, ncalls>>

\* AudioProcessor::denoise_audio
DenoiseAudio(B, T) ==
  /\ \E b \in B, noise_threshold \in T :
       LET r == denoise_audio(b, noise_threshold)
       IN call' = Call("denoise_audio", b, [noise_threshold |-> noise_threshold],
                       r.audio_data, r.result, None, None)
  /\ UNCHANGED <<engine, biquad, hist, ncalls>>

\* AudioProcessor::analyze_audio
AnalyzeAudio(B) ==
  /\ \E b \in B, mcleod \in PitchOutcomes :
       LET r == analyze_audio(mcleod, b)
       IN call' = Call("analyze_audio", b, None, b, r.result, r.value, None)
  /\ UNCHANGED <<engine, biquad, hist, ncalls>>

\* AudioProcessor::get_processor_state
GetProcessorState ==
  /\ LET r == get_processor_state(Self)
     IN call' = Call("get_processor_state", <<>>, None, <<>>, r.result, r.value, None)
  /\ UNCHANGED <<engine, biquad, hist, ncalls>>

\* AudioProcessor::analyze_spectrum_data
AnalyzeSpectrumData(B) ==
  \E b \in B : \E r \in {analyze_spectrum_data(Self, b)} :
    /\ r.result = "Ok" => ncalls < MaxCalls
    /\ SetSelf(r.self)
    /\ call' = Call("analyze_spectrum_data", b, None, b, r.result, r.value,
                    IF r.result = "Ok" THEN Some(r.value.spectral_flux) ELSE None)
    /\ hist' = IF r.result = "Ok" THEN NoteAnalysis(hist, b)
               ELSE [hist EXCEPT !.failed_since = TRUE]
    /\ ncalls' = IF r.result = "Ok" THEN ncalls + 1 ELSE ncalls
    /\ UNCHANGED biquad

\* AudioProcessor::process_audio_frame
ProcessAudioFrame(B, S) ==
  \E b \in B, s \in S, mcleod \in PitchOutcomes :
    \E r \in {process_audio_frame(Self, mcleod, b, s)} :
    /\ r.result = "Ok" => ncalls < MaxCalls
    /\ SetSelf(r.self)
    /\ call' = Call("process_audio_frame", b, s, r.audio_frame, r.result, r.value,
                    r.pushed.flux)
    /\ hist' = NotePushes(hist, r)
    /\ ncalls' = IF r.result = "Ok" THEN ncalls + 1 ELSE ncalls
    /\ UNCHANGED biquad

---------------------------------------------------------------------------
(* Operations of the earlier draft *)

\* the draft's apply_equalizer
DraftApplyEqualizer(B, G) ==
  /\ ncalls < MaxCalls
  /\ \E b \in B, g \in G :
       LET r == draft_apply_equalizer(biquad, b, g.bass, g.mid, g.treble) IN
       /\ biquad' = r.st
       /\ call' = Call("draft_apply_equalizer", b, g, r.audio_data, "Ok", None, None)
  /\ ncalls' = ncalls + 1
  /\ UNCHANGED <<engine, hist>>

\* the draft's apply_compressor
DraftApplyCompressor(B, S) ==
  /\ \E b \in B, s \in S :
       LET out == apply_compressor(b, s.threshold, s.ratio, s.attack, s.release)
       IN call' = Call("apply_compressor", b, s, out, "Ok", None, None)
  /\ UNCHANGED <<engine, biquad, hist, ncalls>>

\* the draft's generate_waveform_data
DraftGenerateWaveformData(B, N) ==
  /\ \E b \in B, n \in N :
       LET r == generate_waveform_data(b, n)
       IN call' = Call("generate_waveform_data", b, [num_points |-> n], b, r.result,
                       [waveform |-> r.value], None)
  /\ UNCHANGED <<engine, biquad, hist, ncalls>>

---------------------------------------------------------------------------
(* Specifications *)

\* Spec: one engine, from construction through any interleaving of its
\* public operations, at most MaxCalls of them changing its state
SpecFrames == {<<>>, ShortFrame, HalfFrame, FullFrame}
SpecSettings == {EqFlat, EqBoost, EqUndecodable}
SpecCompression == {Comp(-20 * Scale, 4 * Scale, 10, 100, 0)}

Next ==
  \/ SetSampleRate(SampleRates)
  \/ GenerateWaveform({Wave(3, 400)}, {2})
  \/ ApplyEqualizer({Wave(3, 400)}, {EqBoost})
  \/ ApplyCompression({Wave(3, 400)}, SpecCompression)
  \/ DenoiseAudio(DenoiseBuffers, {0})
  \/ AnalyzeAudio({<<>>, AlmostFullFrame, FullFrame})
  \/ GetProcessorState
  \/ AnalyzeSpectrumData({ShortFrame, HalfFrame, FullFrame})
  \/ ProcessAudioFrame(SpecFrames, SpecSettings)

Spec == Init /\ [][Next]_vars

\* SpecStream: one engine fed a periodic stream of StreamLen frames: the
\* first MaxPeriod inputs are free, the later ones repeat them
StreamInputs == [frame : {ShortFrame, HalfFrame, QuietFrame}, mcleod : PitchOutcomes]

StreamFrame ==
  /\ hist.nframes < StreamLen
  /\ \E i \in StreamInputs :
       /\ hist.nframes >= MaxPeriod => i = hist.pattern[(hist.nframes % MaxPeriod) + 1]
       /\ \E r \in {process_audio_frame(Self, i.mcleod, i.frame, EqFlat)} :
          \E h \in {NotePushes(hist, r)} :
          /\ SetSelf(r.self)
          /\ call' = Call("process_audio_frame", i.frame, EqFlat, r.audio_frame,
                          r.result, r.value, r.pushed.flux)
          /\ hist' = [h EXCEPT !.nframes = @ + 1,
                               !.pattern = IF hist.nframes < MaxPeriod THEN Append(@, i) ELSE @]
  /\ UNCHANGED <<biquad, ncalls>>

StreamNext == StreamFrame

SpecStream == Init /\ [][StreamNext]_vars

\* SpecOneShot: one call of a whole-buffer operation of the engine (after
\* any changes of its sample rate) or of the draft, on every short buffer
\* and on the buffers at the length thresholds, under every kind of
\* settings; the draft's equalizer, whose filters keep their memory between
\* calls, is called on a new draft processor up to MaxCalls times in a row
Idle == call.op \in {"new", "set_sample_rate"}
Fresh == call.op \in {"new", "draft_apply_equalizer"}

EqualizerInputs == {EqFlat, EqNearFlat, EqJustOff, EqBoost, EqUndecodable}

CompressorInputs ==
  {Comp(-20 * Scale, 4 * Scale, 10, 100, 0),          \* a usual setting
   Comp(-20 * Scale, 4 * Scale, 10, 100, 6 * Scale),  \* with makeup gain
   Comp(-20 * Scale, Scale, 10, 100, 0),              \* ratio 1, threshold in dB
   Comp(500, Scale, 10, 100, 0),                      \* ratio 1, threshold 0.5
   Comp(-20 * Scale, 500, 10, 100, 0),                \* ratio 0.5
   Comp(-20 * Scale, 4 * Scale, 0, 100, 0),           \* attack 0
   Comp(-20 * Scale, 4 * Scale, 10, -100, 0),         \* release -0.1
   CompUndecodable}

OneShotNext ==
  \/ Idle /\ SetSampleRate(SampleRates)
  \/ Idle /\ GenerateWaveform(SmallBuffers, 0..MaxPoints)
  \/ Idle /\ ApplyEqualizer(SmallBuffers, EqualizerInputs)
  \/ Idle /\ ApplyCompression(SmallBuffers, CompressorInputs)
  \/ Idle /\ DenoiseAudio(DenoiseBuffers \cup SmallBuffers, NoiseThresholds)
  \/ Idle /\ AnalyzeAudio(Frames \cup SmallBuffers)
  \/ Idle /\ ProcessAudioFrame(SmallBuffers, EqualizerInputs)
  \/ Fresh /\ DraftApplyEqualizer({b \in SmallBuffers : Len(b) <= 1}, {EqFlat, EqBoost})
  \/ Idle /\ DraftApplyCompressor(SmallBuffers, {s \in CompressorInputs : s.decodes})
  \/ Idle /\ DraftGenerateWaveformData(SmallBuffers, 0..MaxPoints)

SpecOneShot == Init /\ [][OneShotNext]_vars

---------------------------------------------------------------------------
(* Properties *)

\* the last n elements of s
LastN(s, n) == SubSeq(s, Len(s) - n + 1, Len(s))

\* C1: after any sequence of process_audio_frame calls on one engine, each
\* rolling history (rms, spectral flux, pitch) is the last `capacity`
\* elements (30, 30, 10) of the construction zeros followed by the values
\* pushed into it, oldest first.
C1_HistoriesHoldMostRecent ==
  /\ rms_history = LastN(Zeros(RmsCapacity) \o hist.rms_pushed, RmsCapacity)
  /\ spectral_flux_history = LastN(Zeros(FluxCapacity) \o hist.flux_pushed, FluxCapacity)
  /\ pitch_history = LastN(Zeros(PitchCapacity) \o hist.pitch_pushed, PitchCapacity)

\* more values than its capacity were pushed into each history, and the
\* last two rms values and the last two fluxes pushed differ
C1_Witness ==
  /\ Len(hist.rms_pushed) > RmsCapacity
  /\ Len(hist.flux_pushed) > FluxCapacity
  /\ Len(hist.pitch_pushed) > PitchCapacity
  /\ rms_history[RmsCapacity] # rms_history[RmsCapacity - 1]
  /\ spectral_flux_history[FluxCapacity] # spectral_flux_history[FluxCapacity - 1]

\* C2: in every reachable state of an engine pitch_history has length 10
\* and spectral_flux_history and rms_history have length 30; at
\* construction all three are all-zero and the envelope is 0.
C2_HistoryLengths ==
  /\ Len(pitch_history) = PitchCapacity
  /\ Len(spectral_flux_history) = FluxCapacity
  /\ Len(rms_history) = RmsCapacity
  /\ call.op = "new" =>
       /\ pitch_history = Zeros(PitchCapacity)
       /\ spectral_flux_history = Zeros(FluxCapacity)
       /\ rms_history = Zeros(RmsCapacity)
       /\ envelope = 0

\* two frames were processed and each pushed an rms, a flux and a pitch
C2_Witness ==
  /\ call.op = "process_audio_frame"
  /\ Len(hist.rms_pushed) = 2
  /\ Len(hist.flux_pushed) = 2
  /\ Len(hist.pitch_pushed) = 2

\* C3: the first successful spectral analysis of an engine reports flux 0,
\* and a successful analysis of a frame identical to the frame of the
\* successful analysis before it reports flux 0 (the frame of an analysis
\* run by process_audio_frame is the equalized frame).
C3_FluxZero ==
  call.flux.some =>
    /\ hist.analyses = 1 => call.flux.v = 0
    /\ hist.analyses = 2 /\ hist.last_frame = hist.prev_frame => call.flux.v = 0

\* the second successful analysis, of the frame of the first, equalized
\* with a boost, after a failed analysis between the two
C3_Witness ==
  /\ call.op = "process_audio_frame"
  /\ call.flux.some
  /\ hist.analyses = 2
  /\ hist.last_frame = hist.prev_frame
  /\ hist.last_frame # call.input
  /\ hist.failed_between

\* C4: for every buffer (the empty one included) and every num_points >= 0
\* the waveform summarizer (the engine's generate_waveform, the draft's
\* generate_waveform_data) completes and returns exactly num_points values,
\* all of them 0 when the buffer is empty.
C4_WaveformLength ==
  call.op \in {"generate_waveform", "generate_waveform_data"} =>
    /\ call.result = "Ok"
    /\ Len(call.value.waveform) = call.arg.num_points
    /\ call.input = <<>> => \A i \in 1..call.arg.num_points : call.value.waveform[i] = 0

\* the same for num_points >= 1 only, and for the engine on the empty buffer
WaveformLengthFromOnePoint ==
  call.op \in {"generate_waveform", "generate_waveform_data"}
    /\ (call.arg.num_points >= 1 \/ (call.op = "generate_waveform" /\ call.input = <<>>)) =>
      /\ call.result = "Ok"
      /\ Len(call.value.waveform) = call.arg.num_points
      /\ call.input = <<>> => \A i \in 1..call.arg.num_points : call.value.waveform[i] = 0

\* the three gains of decoded settings are within 0.01 of 1.0
GainsNearOne(settings) ==
  /\ settings.decodes
  /\ Abs(settings.bass - Scale) * 100 <= Scale
  /\ Abs(settings.mid - Scale) * 100 <= Scale
  /\ Abs(settings.treble - Scale) * 100 <= Scale

\* C5: an equalizer call (the engine's apply_equalizer, the draft's
\* apply_equalizer, the equalizer step of process_audio_frame) with bass, mid
\* and treble all within 0.01 of 1.0 leaves every sample of the buffer
\* unchanged, for every buffer.
C5_FlatEqualizerIsNoOp ==
  call.op \in {"apply_equalizer", "draft_apply_equalizer", "process_audio_frame"}
    /\ GainsNearOne(call.arg) =>
      call.output = call.input

\* the same for the engine alone
EngineFlatEqualizerIsNoOp ==
  call.op \in {"apply_equalizer", "process_audio_frame"} /\ GainsNearOne(call.arg) =>
    call.result = "Ok" /\ call.output = call.input

\* C6: denoise_audio on a buffer of fewer than 2048 samples returns an error
\* and leaves the buffer and the engine's state unchanged; on a buffer of at
\* least 2048 samples it does not return that error.
C6_DenoiseNeedsFullWindow ==
  [][call'.op = "denoise_audio" =>
       /\ Len(call'.input) < 2048 =>
            call'.result = "Err" /\ call'.output = call'.input /\ UNCHANGED engine
       /\ Len(call'.input) >= 2048 => call'.result = "Ok"]_vars

\* a buffer one sample short was refused by an engine that has analysed and
\* processed frames
C6_Witness ==
  /\ call.op = "denoise_audio"
  /\ call.result = "Err"
  /\ Len(call.input) = 2047
  /\ call.output = call.input
  /\ prev_spectrum.some
  /\ rms_history # Zeros(RmsCapacity)

\* C7: analyze_spectrum_data on a buffer of fewer than 512 samples fails and
\* leaves the stored previous magnitudes unchanged, and on a buffer of at
\* least 512 samples it succeeds; so the flux of every successful analysis
\* is 0 if it is the engine's first, and otherwise the sum of the increases
\* from the magnitudes of the successful analysis before it, whatever failed
\* in between.
C7_FailedAnalysisLeavesSpectrum ==
  [][/\ call'.op = "analyze_spectrum_data" =>
          /\ Len(call'.input) < 512 =>
               call'.result = "Err" /\ prev_spectrum' = prev_spectrum
          /\ Len(call'.input) >= 512 => call'.result = "Ok" /\ call'.flux.some
     /\ call'.flux.some =>
          /\ prev_spectrum' = Some(hist'.last_magnitudes)
          /\ call'.flux.v = IF hist'.analyses = 1 THEN 0
                            ELSE SumOfIncreases(hist'.prev_magnitudes, hist'.last_magnitudes)]_vars

\* analyze_spectrum_data succeeded, after an analysis that failed, after an
\* analysis that succeeded, and reports a flux that is not 0
C7_Witness ==
  /\ call.op = "analyze_spectrum_data"
  /\ call.result = "Ok"
  /\ hist.analyses = 2
  /\ hist.failed_between
  /\ call.flux.v > 0

\* C8: on a buffer of fewer than 1024 samples (the empty one included) pitch
\* detection answers "no pitch" and no error: analyze_audio returns its
\* features with the pitch absent, and process_audio_frame, given decodable
\* settings, succeeds and pushes no pitch.
C8_ShortBufferHasNoPitch ==
  [][/\ call'.op = "analyze_audio" /\ Len(call'.input) < 1024 =>
          call'.result = "Ok" /\ ~call'.value.pitch.some
     /\ call'.op = "process_audio_frame" /\ Len(call'.input) < 1024 /\ call'.arg.decodes =>
          /\ call'.result = "Ok"
          /\ pitch_history' = pitch_history
          /\ hist'.pitch_pushed = hist.pitch_pushed]_vars

\* analyze_audio returned the features of a buffer one sample short of the
\* pitch detector's window
C8_Witness ==
  /\ call.op = "analyze_audio"
  /\ Len(call.input) = 1023
  /\ call.result = "Ok"
  /\ ~call.value.pitch.some
  /\ call.value.rms > 0
  /\ call.value.zero_crossing_rate > 0

\* decoded compressor settings that are numerically invalid
InvalidCompressor(settings) ==
  /\ settings.decodes
  /\ settings.ratio < Scale \/ settings.attack <= 0 \/ settings.release <= 0

\* C9: an engine operation given a numerically invalid configuration (a
\* compressor ratio below 1, an attack or release that is zero or negative,
\* a filter with Q <= 0 or with a cutoff fraction <= 0 or >= 0.5) returns an
\* error and does not modify the buffer.  The equalizer builds its filters
\* only off its fast path, with the fixed Q 0.707 and 1.0; its highest
\* cutoff fraction is 4000 / sample_rate.
C9_InvalidParameterRejected ==
  /\ call.op = "apply_compression" /\ InvalidCompressor(call.arg) =>
       call.result = "Err" /\ call.output = call.input
  /\ call.op \in {"apply_equalizer", "process_audio_frame"}
       /\ call.arg.decodes /\ ~GainsNearOne(call.arg) /\ 2 * 4000 >= sample_rate =>
         call.result = "Err" /\ call.output = call.input

\* C10: the compressor (the engine's apply_compression, the draft's
\* apply_compressor) with ratio 1.0 and makeup gain 0 is a no-op: for every
\* buffer and every threshold each output sample equals the input sample.
C10_UnitRatioIsNoOp ==
  call.op \in {"apply_compression", "apply_compressor"}
    /\ call.arg.decodes /\ call.arg.ratio = Scale /\ call.arg.makeup_gain = 0 =>
      call.output = call.input

\* the same for the engine on the buffers without a zero sample
EngineUnitRatioIsNoOpOffZero ==
  call.op = "apply_compression"
    /\ call.arg.decodes /\ call.arg.ratio = Scale /\ call.arg.makeup_gain = 0
    /\ (\A i \in 1..Len(call.input) : call.input[i] # 0) =>
      call.output = call.input

\* C11: denoise_audio on a buffer of L >= 2048 samples processes and
\* overlap-adds a frame at every start 0, 512, 1024, ... at which a full
\* 2048-sample frame fits (start + 2048 <= L), so at least one frame for
\* every accepted length; with noise_threshold = 0 it reconstructs the
\* signal, so a buffer that is nowhere 0 does not come back all 0.
C11_DenoiseCoversFullFrames ==
  call.op = "denoise_audio" /\ call.result = "Ok" =>
    /\ FrameStarts(Len(call.input)) =
         {start \in 0..Len(call.input) : start % 512 = 0 /\ start + 2048 <= Len(call.input)}
    /\ call.arg.noise_threshold = 0 /\ (\A n \in 1..Len(call.input) : call.input[n] # 0) =>
         \E n \in 1..Len(call.output) : call.output[n] # 0

\* the same for the buffers whose length minus 2048 is not a multiple of 512
DenoiseCoversFullFramesOffHop ==
  call.op = "denoise_audio" /\ call.result = "Ok" /\ (Len(call.input) - 2048) % 512 # 0 =>
    /\ FrameStarts(Len(call.input)) =
         {start \in 0..Len(call.input) : start % 512 = 0 /\ start + 2048 <= Len(call.input)}
    /\ call.arg.noise_threshold = 0 /\ (\A n \in 1..Len(call.input) : call.input[n] # 0) =>
         \E n \in 1..Len(call.output) : call.output[n] # 0

\* C12: a successful process_audio_frame call pushes exactly one value, the
\* rms of the equalized frame, into the rms history; it pushes into the
\* pitch history if and only if the pitch detection of that frame found a
\* pitch, and the flux of the frame into the flux history if and only if its
\* spectral analysis succeeded (the frame has at least 512 samples); a
\* history without a push is unchanged, and so is the previous spectrum
\* when the analysis failed.
C12_FramePushes ==
  [][call'.op = "process_audio_frame" /\ call'.result = "Ok" =>
       /\ rms_history' = Append(Tail(rms_history), calculate_rms(call'.output))
       /\ hist'.rms_pushed = Append(hist.rms_pushed, calculate_rms(call'.output))
       /\ pitch_history' =
            IF Len(hist'.pitch_pushed) > Len(hist.pitch_pushed)
            THEN Append(Tail(pitch_history), hist'.pitch_pushed[Len(hist'.pitch_pushed)])
            ELSE pitch_history
       /\ call'.flux.some <=> Len(call'.input) >= 512
       /\ spectral_flux_history' =
            IF call'.flux.some
            THEN Append(Tail(spectral_flux_history), call'.flux.v)
            ELSE spectral_flux_history
       /\ ~call'.flux.some => prev_spectrum' = prev_spectrum
       /\ sample_rate' = sample_rate]_vars

\* the second frame of an engine, one sample short of the spectral
\* analysis and equalized with a boost, after a frame that pushed an rms, a
\* pitch and a flux
C12_Witness ==
  /\ call.op = "process_audio_frame"
  /\ call.result = "Ok"
  /\ Len(call.input) = 511
  /\ call.output # call.input
  /\ ~call.flux.some
  /\ Len(hist.rms_pushed) = 2
  /\ Len(hist.pitch_pushed) = 1
  /\ Len(hist.flux_pushed) = 1
  /\ rms_history[RmsCapacity] > 0

\* the sum over the bins k of max(0, current[k] - previous[k])
HalfWaveSum(previous, current) ==
  SumRange([k \in 1..Len(current) |-> Max(0, current[k] - previous[k])], 1, Len(current))

\* C13: every successful spectral analysis of an engine, by
\* analyze_spectrum_data or inside process_audio_frame, reports the sum over
\* the bins of max(0, new magnitude - previous magnitude) against the
\* magnitudes of the successful analysis just before it, and leaves its own
\* magnitudes stored as the previous spectrum.
C13_FluxIsRectifiedIncrease ==
  call.flux.some =>
    /\ prev_spectrum = Some(hist.last_magnitudes)
    /\ call.op = "analyze_spectrum_data" => call.value.magnitudes = hist.last_magnitudes
    /\ hist.analyses = 2 =>
         /\ Len(hist.prev_magnitudes) = Len(hist.last_magnitudes)
         /\ call.flux.v = HalfWaveSum(hist.prev_magnitudes, hist.last_magnitudes)

\* process_audio_frame ran the second successful analysis of an engine;
\* some bins rose and some fell against the analysis before it
C13_Witness ==
  /\ call.op = "process_audio_frame"
  /\ call.flux.some
  /\ hist.analyses = 2
  /\ call.flux.v > 0
  /\ \E k \in 1..Len(hist.last_magnitudes) : hist.last_magnitudes[k] < hist.prev_magnitudes[k]
  /\ spectral_flux_history[FluxCapacity] = call.flux.v

\* the outputs of the engine's three filters, each run on its own over the
\* unprocessed buffer, at sample rate sr
ParallelBands(sr, audio_data, settings) ==
  [lowpass |-> RunFilter(low_pass(200, sr, 707), audio_data, 1, Len(audio_data)).out,
   peaking |-> RunFilter(peak(1000, sr, Scale, (settings.mid - Scale) * 12),
                         audio_data, 1, Len(audio_data)).out,
   highpass |-> RunFilter(high_pass(4000, sr, 707), audio_data, 1, Len(audio_data)).out]

\* one filter of the draft run over a whole buffer from the memory st
RECURSIVE BiquadRun(_, _, _)
BiquadRun(c, st, data) ==
  IF data = <<>> THEN [st |-> st, out |-> <<>>]
  ELSE LET r == BiquadProcess(c, st, Head(data))
           rest == BiquadRun(c, r.st, Tail(data))
       IN [st |-> rest.st, out |-> <<r.out>> \o rest.out]

\* the coefficients of the draft's three filters under the gains g
DraftCoefficients(g) ==
  [low |-> calculate_coefficients(0, 200, 700, g.bass, DefaultSampleRate),
   mid |-> calculate_coefficients(1, 1000, 700, g.mid, DefaultSampleRate),
   high |-> calculate_coefficients(2, 5000, 700, g.treble, DefaultSampleRate)]

\* an equalizer call off the fast path
OffFastPath ==
  /\ call.op \in {"apply_equalizer", "process_audio_frame", "draft_apply_equalizer"}
  /\ call.arg.decodes
  /\ ~GainsNearOne(call.arg)

PeakOf(data, lo, hi) ==
  CHOOSE m \in {Abs(data[j]) : j \in lo..hi} :
    \A j \in lo..hi : Abs(data[j]) <= m

\* the ways of cutting samples 1..len into n consecutive non-empty buckets:
\* cut[i] is the last sample of bucket i, cut[0] = 0 and cut[n] = len
BucketCuts(len, n) ==
  {cut \in [0..n -> 0..len] :
     /\ cut[0] = 0
     /\ cut[n] = len
     /\ \A i \in 1..n : cut[i - 1] < cut[i]}

\* C15: for a non-empty buffer of at least num_points >= 1 samples the
\* summary is the peak absolute value of each of num_points buckets that
\* partition the buffer (every sample in exactly one bucket), not normalized,
\* so its maximum is the peak of the whole buffer; for a buffer shorter than
\* num_points, entry i is the absolute value of the sample at
\* floor(i * length / num_points).
C15_WaveformBucketsCoverBuffer ==
  call.op \in {"generate_waveform", "generate_waveform_data"}
    /\ Len(call.input) >= 1 /\ call.arg.num_points >= 1 =>
    LET len == Len(call.input)
        n == call.arg.num_points
        result == call.value.waveform
    IN /\ call.result = "Ok"
       /\ Len(result) = n
       /\ IF len >= n
          THEN /\ \E cut \in BucketCuts(len, n) :
                    \A i \in 1..n : result[i] = PeakOf(call.input, cut[i - 1] + 1, cut[i])
               /\ PeakOf(result, 1, n) = PeakOf(call.input, 1, len)
          ELSE \A i \in 1..n : result[i] = Abs(call.input[((i - 1) * len) \div n + 1])

\* the same for the engine alone when num_points divides the length or
\* exceeds it
EngineWaveformBucketsWhenDivisible ==
  call.op = "generate_waveform"
    /\ Len(call.input) >= 1 /\ call.arg.num_points >= 1
    /\ (Len(call.input) < call.arg.num_points
          \/ Len(call.input) % call.arg.num_points = 0) =>
    LET len == Len(call.input)
        n == call.arg.num_points
        result == call.value.waveform
    IN /\ call.result = "Ok"
       /\ Len(result) = n
       /\ IF len >= n
          THEN /\ \E cut \in BucketCuts(len, n) :
                    \A i \in 1..n : result[i] = PeakOf(call.input, cut[i - 1] + 1, cut[i])
               /\ PeakOf(result, 1, n) = PeakOf(call.input, 1, len)
          ELSE \A i \in 1..n : result[i] = Abs(call.input[((i - 1) * len) \div n + 1])

\* the envelope of apply_compression after each sample of audio_data[1..n],
\* started at 0
RECURSIVE EnvelopeTrace(_, _, _, _)
EnvelopeTrace(audio_data, n, attack_coef, release_coef) ==
  IF n = 0 THEN <<>>
  ELSE LET before == EnvelopeTrace(audio_data, n - 1, attack_coef, release_coef)
           env == IF n = 1 THEN 0 ELSE before[n - 1]
           input_level == FAbs(audio_data[n])
           coef == IF FGt(input_level, env) THEN attack_coef ELSE release_coef
       IN Append(before, FSub(FMul(coef, FSub(env, input_level)), FNeg(input_level)))

\* the gain reduction in dB the compressor is to apply at the envelope env:
\* none up to the threshold, (1 - 1/ratio) of the excess above it
GainReductionDb(env, settings) ==
  LET envelope_db == Log10Times20(env)
  IN IF envelope_db = NInf \/ envelope_db <= settings.threshold THEN 0
     ELSE FMul(FSub(Scale, FDiv(Scale, settings.ratio)), envelope_db - settings.threshold)

\* C16: the compressor's gain reduction in dB is 0 whenever the envelope in
\* dB (20 * log10(envelope)) does not exceed the threshold in dB, and
\* (1 - 1/ratio) * (envelope_dB - threshold_dB) otherwise; so with ratio >= 1
\* it is never negative, and with makeup gain 0 the compressor never
\* increases the magnitude of a sample.  Stated of the engine's
\* apply_compression, whose threshold is in dB.
C16_GainReductionAboveThresholdOnly ==
  call.op = "apply_compression" /\ call.arg.decodes /\ call.arg.ratio >= Scale
    /\ call.arg.attack > 0 /\ call.arg.release > 0 =>
      LET env == EnvelopeTrace(call.input, Len(call.input),
                               TimeCoef(call.arg.attack, sample_rate),
                               TimeCoef(call.arg.release, sample_rate))
      IN /\ call.result = "Ok"
         /\ Len(call.output) = Len(call.input)
         /\ \A i \in 1..Len(call.input) :
              /\ GainReductionDb(env[i], call.arg) >= 0
              /\ call.output[i] =
                   FMul(call.input[i],
                        FMul(Pow10Div20(FNeg(GainReductionDb(env[i], call.arg))),
                             Pow10Div20(call.arg.makeup_gain)))
              /\ call.arg.makeup_gain = 0 =>
                   IsFinite(call.output[i]) /\ Abs(call.output[i]) <= Abs(call.input[i])

\* C17: a process_audio_frame call that fails because its settings cannot be
\* decoded has changed nothing: the frame holds its original samples, and the
\* envelope, the three histories and the stored previous spectrum are as
\* before the call.  Undecodable settings always fail the call, and nothing
\* else does.
C17_FailedFrameChangesNothing ==
  [][call'.op = "process_audio_frame" =>
       /\ call'.result = "Err" <=> ~call'.arg.decodes
       /\ call'.result = "Err" =>
            /\ call'.output = call'.input
            /\ call'.value = None
            /\ envelope' = envelope
            /\ rms_history' = rms_history
            /\ pitch_history' = pitch_history
            /\ spectral_flux_history' = spectral_flux_history
            /\ prev_spectrum' = prev_spectrum
            /\ sample_rate' = sample_rate]_vars

\* a frame call failed on undecodable settings after two frames had been
\* processed: the histories, the envelope and the stored spectrum are not
\* the ones of construction
C17_Witness ==
  /\ call.op = "process_audio_frame"
  /\ call.result = "Err"
  /\ ~call.arg.decodes
  /\ Len(call.input) = 512
  /\ Len(hist.rms_pushed) = 2
  /\ rms_history[RmsCapacity] > 0
  /\ envelope > 0
  /\ prev_spectrum.some

\* the whole-buffer operations and the state query
OneShotOps ==
  {"generate_waveform", "apply_equalizer", "apply_compression", "denoise_audio",
   "analyze_audio", "get_processor_state"}

\* C18: generate_waveform, apply_equalizer, apply_compression, denoise_audio,
\* analyze_audio and get_processor_state, interleaved with process_audio_frame
\* calls, leave the streaming state (envelope, the three histories, the stored
\* previous spectrum) unchanged; get_processor_state returns exactly the
\* snapshot the most recent successful process_audio_frame returned, or the
\* one of construction if there was none; apply_compression starts from
\* envelope 0 in every call, so its output is a function of the buffer, the
\* settings and the sample rate alone.
C18_OneShotOperationsKeepStreamingState ==
  [][/\ call'.op \in OneShotOps =>
          /\ envelope' = envelope
          /\ rms_history' = rms_history
          /\ pitch_history' = pitch_history
          /\ spectral_flux_history' = spectral_flux_history
          /\ prev_spectrum' = prev_spectrum
     /\ call'.op = "get_processor_state" =>
          /\ call'.result = "Ok"
          /\ call'.value = hist.last_state
     /\ call'.op = "process_audio_frame" /\ call'.result = "Ok" =>
          call'.value = hist'.last_state
     /\ call'.op = "apply_compression" /\ call'.arg.decodes =>
          LET attack_coef == TimeCoef(call'.arg.attack, sample_rate)
              release_coef == TimeCoef(call'.arg.release, sample_rate)
              env == <<0>> \o EnvelopeTrace(call'.input, Len(call'.input),
                                            attack_coef, release_coef)
          IN /\ Len(call'.output) = Len(call'.input)
             /\ \A i \in 1..Len(call'.input) :
                  call'.output[i] = CompressSample(env[i], call'.input[i], attack_coef,
                                                   release_coef, call'.arg).out]_vars

\* the state is queried after two processed frames: the snapshot is the one
\* the second frame returned, with a raised envelope and a pushed pitch
C18_Witness ==
  /\ call.op = "get_processor_state"
  /\ call.value = hist.last_state
  /\ Len(hist.rms_pushed) = 2
  /\ call.value.envelope > 0
  /\ call.value.rms_history[RmsCapacity] > 0
  /\ call.value.pitch_history[PitchCapacity] > 0
  /\ prev_spectrum.some

=============================================================================
